---- MODULE Spec2Model ----
(***************************************************************************)
(* Model of the two validation pipelines of the repository:                *)
(*   src/SM_data_validation_script.py  (country code 685, 7-digit phones)  *)
(*   src/data_validation_script.py     (country code 682, 5-digit phones,  *)
(*                                      account number governed)           *)
(* A text value is a sequence of one-character strings.                    *)
(***************************************************************************)
EXTENDS Integers, Sequences, FiniteSets, TLC

\* The two pipeline variants (one per script).
SM == "SM_data_validation_script"
DV == "data_validation_script"
Variants == {SM, DV}

----------------------------------------------------------------------------
\* Python string primitives used by the scripts.

Digits == {"0", "1", "2", "3", "4", "5", "6", "7", "8", "9"}
Letters == {"a", "b", "c", "A", "B", "X"}
DigitsStr == <<"0", "1", "2", "3", "4", "5", "6", "7", "8", "9">>

DigitVal(c) == CHOOSE n \in 0..9 : DigitsStr[n + 1] = c
DigitChar(n) == DigitsStr[n + 1]

SetMin(S) == CHOOSE x \in S : \A y \in S : x <= y
SetMax(S) == CHOOSE x \in S : \A y \in S : x >= y

\* str.strip(): drop leading and trailing whitespace.
strip(s) ==
    LET keep == {k \in 1..Len(s) : s[k] # " "}
    IN IF keep = {} THEN <<>> ELSE SubSeq(s, SetMin(keep), SetMax(keep))

\* str.startswith(p)
startswith(s, p) == Len(s) >= Len(p) /\ SubSeq(s, 1, Len(p)) = p

\* s[n:]
slice_from(s, n) == SubSeq(s, n + 1, Len(s))

\* str.isdigit(): non-empty and every character a digit.
isdigit(s) == s # <<>> /\ \A k \in 1..Len(s) : s[k] \in Digits

\* str.isalnum(): non-empty and every character a letter or a digit.
isalnum(s) == s # <<>> /\ \A k \in 1..Len(s) : s[k] \in (Digits \cup Letters)

\* str.zfill(width): left-pad with zeros, after a leading sign if any.
zfill(s, width) ==
    LET zeros == [k \in 1..(width - Len(s)) |-> "0"]
    IN IF Len(s) >= width THEN s
       ELSE IF s # <<>> /\ s[1] \in {"+", "-"}
            THEN <<s[1]>> \o zeros \o slice_from(s, 1)
            ELSE zeros \o s

\* str.replace(old, new) for one-character old and new.
replace(s, old, new) == [k \in 1..Len(s) |-> IF s[k] = old THEN new ELSE s[k]]

----------------------------------------------------------------------------
\* validate_email: re.match of
\*   ^[a-zA-Z0-9_.+-]+@[a-zA-Z0-9-]+\.[a-zA-Z0-9-.]+$
LocalChars == Digits \cup Letters \cup {"_", ".", "+", "-"}
LabelChars == Digits \cup Letters \cup {"-"}
TailChars == LabelChars \cup {"."}

validate_email(email) ==
    \E p \in 1..Len(email) : \E q \in 1..Len(email) :
        /\ email[p] = "@"
        /\ p > 1
        /\ \A k \in 1..(p - 1) : email[k] \in LocalChars
        /\ q > p + 1
        /\ email[q] = "."
        /\ \A k \in (p + 1)..(q - 1) : email[k] \in LabelChars
        /\ q < Len(email)
        /\ \A k \in (q + 1)..Len(email) : email[k] \in TailChars

----------------------------------------------------------------------------
\* datetime.strptime(s, '%d/%m/%Y') and '%d/%m/%y', datetime.strftime.

\* A failed parse (ValueError); a successful one carries the date.
ValueError == [ok |-> FALSE, day |-> 0, month |-> 0, year |-> 0]

\* %d : 3[0-1] | [1-2]\d | 0[1-9] | [1-9] | <space>[1-9]
DayTok(t) ==
    \/ Len(t) = 1 /\ t[1] \in (Digits \ {"0"})
    \/ /\ Len(t) = 2
       /\ \/ t[1] = "3" /\ t[2] \in {"0", "1"}
          \/ t[1] \in {"1", "2"} /\ t[2] \in Digits
          \/ t[1] \in {"0", " "} /\ t[2] \in (Digits \ {"0"})

\* %m : 1[0-2] | 0[1-9] | [1-9]
MonthTok(t) ==
    \/ Len(t) = 1 /\ t[1] \in (Digits \ {"0"})
    \/ /\ Len(t) = 2
       /\ \/ t[1] = "1" /\ t[2] \in {"0", "1", "2"}
          \/ t[1] = "0" /\ t[2] \in (Digits \ {"0"})

RECURSIVE TokVal(_)
TokVal(t) ==
    IF t = <<>> THEN 0
    ELSE LET last == t[Len(t)]
             v == IF last = " " THEN 0 ELSE DigitVal(last)
         IN 10 * TokVal(SubSeq(t, 1, Len(t) - 1)) + v

IsLeap(y) == (y % 4 = 0 /\ y % 100 # 0) \/ y % 400 = 0

DaysIn(m, y) ==
    IF m = 2 THEN (IF IsLeap(y) THEN 29 ELSE 28)
    ELSE IF m \in {4, 6, 9, 11} THEN 30 ELSE 31

\* yearDigits is 4 for %Y and 2 for %y.
strptime(s, yearDigits) ==
    LET slashes == {k \in 1..Len(s) : s[k] = "/"}
    IN IF Cardinality(slashes) < 2 THEN ValueError
       ELSE LET p1 == SetMin(slashes)
                p2 == SetMin(slashes \ {p1})
                dt == SubSeq(s, 1, p1 - 1)
                mt == SubSeq(s, p1 + 1, p2 - 1)
                yt == slice_from(s, p2)
            IN IF ~(DayTok(dt) /\ MonthTok(mt) /\ Len(yt) = yearDigits /\ isdigit(yt))
               THEN ValueError
               ELSE LET d == TokVal(dt)
                        m == TokVal(mt)
                        yv == TokVal(yt)
                        y == IF yearDigits = 4 THEN yv
                             ELSE IF yv < 69 THEN 2000 + yv ELSE 1900 + yv
                    IN IF y < 1 \/ d > DaysIn(m, y) THEN ValueError
                       ELSE [ok |-> TRUE, day |-> d, month |-> m, year |-> y]

RECURSIVE Decimal(_)
Decimal(n) == IF n < 10 THEN <<DigitChar(n)>>
              ELSE Decimal(n \div 10) \o <<DigitChar(n % 10)>>

\* strftime('%d/%m/%Y').  The C library decides whether a year below 1000
\* is zero-padded to four digits; padYear is that platform choice.
strftime(date, padYear) ==
    LET yr == Decimal(date.year)
    IN zfill(Decimal(date.day), 2) \o <<"/">> \o zfill(Decimal(date.month), 2)
       \o <<"/">> \o (IF padYear THEN zfill(yr, 4) ELSE yr)

----------------------------------------------------------------------------
\* Dictionaries, log entries and error descriptors.

\* dict(zip(processed_header, row)): zip stops at the shorter argument and
\* never raises; a later duplicate key overwrites an earlier one.
zip_dict(names, row) ==
    LET n == IF Len(names) < Len(row) THEN Len(names) ELSE Len(row)
    IN [name \in {names[k] : k \in 1..n} |->
            row[SetMax({k \in 1..n : names[k] = name})]]

\* dict.get(key, '')
get(d, key) == IF key \in DOMAIN d THEN d[key] ELSE <<>>

\* d[key] = value
set_item(d, key, value) ==
    [k \in (DOMAIN d) \cup {key} |-> IF k = key THEN value ELSE d[k]]

\* One line of the job log: the severity prefix of the message, the input
\* row it is about (0 for the job markers), the event and the before/after
\* values the message carries.
LogEntry(level, i, event, old, new) ==
    [level |-> level, row |-> i, event |-> event, old |-> old, new |-> new]

log_message(log_file, entry) == Append(log_file, entry)

\* One element of error_description: the message and the value it embeds.
Desc(msg, val) == [msg |-> msg, val |-> val]

\* header_map of each script.
header_map(variant, h) ==
    IF h = "Mobile_No" THEN "Mobile_no"
    ELSE IF variant = DV /\ h = "AC_NO" THEN "Acc_no"
    ELSE h

processed_header(variant, hdr) == [k \in 1..Len(hdr) |-> header_map(variant, hdr[k])]

\* error_header without the trailing column.
error_header_plain(hdr) == hdr

\* error_header = header + ['error_desc']
error_header(hdr) == hdr \o <<"error_desc">>

\* [row_data.get(h, '') for h in processed_header]
row_values(row_data, names) == [k \in 1..Len(names) |-> get(row_data, names[k])]

----------------------------------------------------------------------------
\* Locale constants of the two scripts.

AccWidth == 10

plus_prefix(variant) ==
    IF variant = SM THEN <<"+", "6", "8", "5">> ELSE <<"+", "6", "8", "2">>
bare_prefix(variant) ==
    IF variant = SM THEN <<"6", "8", "5">> ELSE <<"6", "8", "2">>
mobile_length(variant) == IF variant = SM THEN 7 ELSE 5
\* The SM list also holds '800', which no single first digit equals.
non_mobile_digits(variant) ==
    IF variant = SM THEN {"2", "3", "4", "5", "6"} ELSE {"2", "3", "4"}
mobile_digits(variant) ==
    IF variant = SM THEN {"9", "3"} ELSE {"5", "7", "8"}
\* Only the SM script special-cases a mobile number of '0'.
zero_is_warning(variant) == variant = SM

\* strip_country_code without the trimming of what follows the prefix.
strip_country_code_untrimmed(variant, mobile) ==
    IF startswith(mobile, plus_prefix(variant))
    THEN slice_from(mobile, 4)
    ELSE IF startswith(mobile, bare_prefix(variant))
         THEN slice_from(mobile, 3)
         ELSE mobile

\* Removal of the country code from an already trimmed mobile number.
strip_country_code(variant, mobile) ==
    IF startswith(mobile, plus_prefix(variant))
    THEN strip(slice_from(mobile, 4))
    ELSE IF startswith(mobile, bare_prefix(variant))
         THEN strip(slice_from(mobile, 3))
         ELSE mobile

\* The mobile number the script works with for one cell value.
normalize_mobile(variant, cell) == strip_country_code(variant, strip(cell))

----------------------------------------------------------------------------
\* The field rules.  A rule takes and returns the working state of one row:
\* row_data (the dictionary), err (error_description), log (the entries the
\* row has appended so far) and exc (an exception has been raised).

KeyError(rules, key) == key \notin DOMAIN rules

add_error(st, d) == [st EXCEPT !.err = Append(@, d)]
add_log(st, e) == [st EXCEPT !.log = log_message(@, e)]

\* Which entry of the rules and which column each identifier rule reads.
id_rule_key(variant, field) == IF variant = SM THEN field ELSE "USCLID"
id_value_field(variant, field) == IF variant = SM THEN field ELSE "USPCID"
id_checks_alnum(variant) == variant = SM

missing_msg(field) ==
    IF field = "USPCID" THEN "missing USPCID" ELSE "missing USCLID"
special_msg(field) ==
    IF field = "USPCID" THEN "USPCID contains special characters"
    ELSE "USCLID contains special characters"

\* 1. and 2.: USPCID and USCLID validation.
step_identifier(variant, rules, field, st) ==
    IF st.exc THEN st
    ELSE IF KeyError(rules, id_rule_key(variant, field)) THEN [st EXCEPT !.exc = TRUE]
    ELSE LET value == strip(get(st.row_data, id_value_field(variant, field)))
         IN IF rules[id_rule_key(variant, field)] /\ value = <<>>
            THEN add_error(st, Desc(missing_msg(field), <<>>))
            ELSE IF id_checks_alnum(variant) /\ value # <<>> /\ ~isalnum(value)
                 THEN add_error(st, Desc(special_msg(field), <<>>))
                 ELSE st

\* short_circuit that never fires.
short_circuit_never(variant, rules, email) == FALSE

\* SM pre-validation check: the row fails on a missing required email alone.
short_circuit(variant, rules, email) ==
    variant = SM /\ rules["email_add"] /\ email = <<>>

\* 3.: email validation.
step_email(variant, rules, st) ==
    IF st.exc THEN st
    ELSE LET email == strip(get(st.row_data, "email_add"))
         IN IF variant = SM
            THEN IF email # <<>> /\ ~validate_email(email)
                 THEN add_error(st, Desc("invalid email address", <<>>))
                 ELSE st
            ELSE IF KeyError(rules, "email_add") THEN [st EXCEPT !.exc = TRUE]
            ELSE IF rules["email_add"] /\ email = <<>>
                 THEN add_error(st, Desc("missing email address", <<>>))
                 ELSE IF email # <<>> /\ ~validate_email(email)
                      THEN add_error(st, Desc("invalid email address", <<>>))
                      ELSE st

\* The verdict on a stripped mobile number.
check_mobile(variant, i, original_mobile, mobile, st) ==
    IF zero_is_warning(variant) /\ mobile = <<"0">>
    THEN add_log(st, LogEntry("WARNING", i, "mobile_zero", mobile, mobile))
    ELSE IF ~isdigit(mobile) \/ Len(mobile) # mobile_length(variant)
    THEN add_error(st, Desc("invalid mobile number format", original_mobile))
    ELSE IF mobile[1] \in non_mobile_digits(variant)
    THEN add_log(st, LogEntry("WARNING", i, "not_mobile", mobile, mobile))
    ELSE IF mobile[1] \notin mobile_digits(variant)
    THEN add_log(st, LogEntry("WARNING", i, "outside_range", mobile, mobile))
    ELSE st

\* The change of the mobile number, logged and stored when there is one.
store_mobile(i, original_mobile, mobile, st) ==
    IF mobile # original_mobile
    THEN [add_log(st, LogEntry("INFO", i, "mobile_changed", original_mobile, mobile))
            EXCEPT !.row_data = set_item(@, "Mobile_no", mobile)]
    ELSE st

\* 4.: mobile number validation and cleaning.
step_mobile(variant, i, st) ==
    IF st.exc THEN st
    ELSE LET original_mobile == strip(get(st.row_data, "Mobile_no"))
             mobile == strip_country_code(variant, original_mobile)
         IN IF original_mobile # <<>>
            THEN check_mobile(variant, i, original_mobile, mobile,
                              store_mobile(i, original_mobile, mobile, st))
            ELSE add_log(st, LogEntry("INFO", i, "no_mobile", <<>>, <<>>))

\* 5.: account number validation and cleaning (commented out in the SM script).
step_account(variant, i, st) ==
    IF st.exc \/ variant = SM THEN st
    ELSE LET acc_no == strip(get(st.row_data, "Acc_no"))
         IN IF acc_no = <<>> THEN add_error(st, Desc("invalid account", <<>>))
            ELSE IF ~isdigit(acc_no)
            THEN add_error(st, Desc("invalid account number format", <<>>))
            ELSE IF Len(acc_no) > AccWidth
            THEN add_error(st, Desc("invalid account number length", <<>>))
            ELSE IF Len(acc_no) < AccWidth
            THEN [add_log(st, LogEntry("INFO", i, "acc_changed", acc_no,
                                       zfill(acc_no, AccWidth)))
                    EXCEPT !.row_data = set_item(@, "Acc_no", zfill(acc_no, AccWidth))]
            ELSE st

\* 6.: date of birth, SM script: '%d/%m/%Y' then '%d/%m/%y'; the rules are
\* not consulted.
step_dob_SM(i, padYear, st) ==
    LET dob_str == strip(get(st.row_data, "DOB"))
        first == strptime(dob_str, 4)
        dob_obj == IF first # ValueError THEN first ELSE strptime(dob_str, 2)
    IN IF dob_str = <<>> THEN add_error(st, Desc("missing date of birth", <<>>))
       ELSE IF dob_obj = ValueError
       THEN add_error(st, Desc("invalid date of birth format", dob_str))
       ELSE LET formatted_dob == strftime(dob_obj, padYear)
                logged == IF formatted_dob # dob_str
                          THEN add_log(st, LogEntry("INFO", i, "dob_changed",
                                                    dob_str, formatted_dob))
                          ELSE st
            IN [logged EXCEPT !.row_data = set_item(@, "DOB", formatted_dob)]

\* 6.: date of birth, other script: '%d/%m/%Y', then once more with '-' and
\* '.' replaced by '/'.
step_dob_DV(rules, i, padYear, st) ==
    LET dob_str == strip(get(st.row_data, "DOB"))
        first == strptime(dob_str, 4)
        corrected_dob == replace(replace(dob_str, "-", "/"), ".", "/")
        second == strptime(corrected_dob, 4)
    IN IF KeyError(rules, "DOB") THEN [st EXCEPT !.exc = TRUE]
       ELSE IF rules["DOB"] /\ dob_str = <<>>
       THEN add_error(st, Desc("invalid date of birth", <<>>))
       ELSE IF dob_str = <<>> THEN st
       ELSE IF first # ValueError
       THEN [st EXCEPT !.row_data = set_item(@, "DOB", strftime(first, padYear))]
       ELSE IF second # ValueError
       THEN [add_log(st, LogEntry("INFO", i, "dob_changed", dob_str,
                                  strftime(second, padYear)))
               EXCEPT !.row_data = set_item(@, "DOB", strftime(second, padYear))]
       ELSE add_error(st, Desc("invalid date of birth", <<>>))

\* step_dob that gives up on a row an earlier rule has rejected.
step_dob_unless_failed(variant, rules, i, padYear, st) ==
    IF st.exc \/ st.err # <<>> THEN st
    ELSE IF variant = SM THEN step_dob_SM(i, padYear, st)
    ELSE step_dob_DV(rules, i, padYear, st)

step_dob(variant, rules, i, padYear, st) ==
    IF st.exc THEN st
    ELSE IF variant = SM THEN step_dob_SM(i, padYear, st)
    ELSE step_dob_DV(rules, i, padYear, st)

\* The field-by-field validation of one row, in the order of the script.
validate_fields(variant, rules, i, padYear, st) ==
    step_dob(variant, rules, i, padYear,
       step_account(variant, i,
          step_mobile(variant, i,
             step_email(variant, rules,
                step_identifier(variant, rules, "USCLID",
                   step_identifier(variant, rules, "USPCID", st))))))

\* The body of the loop for input row i.  The result says whether an
\* exception escaped (exc), the row was short-circuited (short), the
\* dictionary and descriptors at the end, and the log entries appended.
process_row(variant, rules, names, i, row, padYear) ==
    LET row_data == zip_dict(names, row)
        st0 == [row_data |-> row_data, err |-> <<>>, log |-> <<>>, exc |-> FALSE]
        email == strip(get(row_data, "email_add"))
    IN IF variant = SM /\ KeyError(rules, "email_add")
       THEN [st0 EXCEPT !.exc = TRUE] @@ [short |-> FALSE]
       ELSE IF short_circuit(variant, rules, email)
       THEN [add_log(add_error(st0, Desc("missing email address", <<>>)),
                     LogEntry("ERROR", i, "missing_email_row", <<>>, <<>>))
               EXCEPT !.exc = FALSE] @@ [short |-> TRUE]
       ELSE validate_fields(variant, rules, i, padYear, st0) @@ [short |-> FALSE]

----------------------------------------------------------------------------
\* Inputs of a job.

\* Largest number of data rows of the input file.
MaxRows == 3

RuleKeys == {"USPCID", "USCLID", "email_add", "DOB"}

\* validation_rules.json: every required flag, and documents lacking a key.
RuleSets ==
    [RuleKeys -> BOOLEAN] \cup
    {[k \in RuleKeys \ {missing} |-> TRUE] : missing \in {"USPCID", "email_add", "DOB"}}

NoRules == [k \in {} |-> TRUE]

RuleDocs ==
    {[exists |-> TRUE, doc |-> r] : r \in RuleSets} \cup {[exists |-> FALSE, doc |-> NoRules]}

\* The header line of the input file of each script.
FileHeader(variant) ==
    IF variant = SM THEN <<"USPCID", "USCLID", "email_add", "Mobile_No", "DOB">>
    ELSE <<"USPCID", "USCLID", "email_add", "Mobile_No", "AC_NO", "DOB">>

\* Cell values, column by column.
UspcidPool == {<<>>,
               <<"A", "1">>,
               <<"A", "-", "1">>}
UsclidPool == {<<>>,
               <<"B", "2">>}
EmailPool == {<<>>,
              <<"a", "@", "b", ".", "c">>,
              <<"a", "@", "b">>}
MobilePool(variant) ==
    IF variant = SM
    THEN {<<>>,
          <<"0">>,
          <<"9", "2", "3", "4", "5", "6", "7">>,
          <<"+", "6", "8", "5", " ", "1", "2", "3", "4", "5", "6", "7">>,
          <<"6", "8", "5", "9", "2", "3", "4", "5", "6", "7">>,
          <<"2", "2", "3", "4", "5", "6", "7">>,
          <<"1", "2", "3", "4", "5">>,
          <<"+", "6", "8", "5", "0">>,
          <<" ", "9", "2", "3", "4", "5", "6", "7">>}
    ELSE {<<>>,
          <<"0">>,
          <<"5", "2", "3", "4", "5">>,
          <<"+", "6", "8", "2", " ", "5", "2", "3", "4", "5">>,
          <<"6", "8", "2", "2", "2", "3", "4", "5">>,
          <<"9", "2", "3", "4", "5">>,
          <<"1", "2", "3", "4", "5", "6", "7">>,
          <<"+", "6", "8", "2", "0">>,
          <<" ", "5", "2", "3", "4", "5">>}
AccPool == {<<>>,
            <<"1", "2", "3", "4", "5">>,
            <<"1", "2", "3", "4", "5", "6", "7", "8", "9", "0">>,
            <<"1", "2", "3", "4", "5", "6", "7", "8", "9", "0", "1">>,
            <<"1", "2", "a">>}
DobPool == {<<>>,
            <<"0", "1", "/", "0", "2", "/", "1", "9", "9", "0">>,
            <<"1", "/", "2", "/", "1", "9", "9", "0">>,
            <<"0", "1", "-", "0", "2", "-", "1", "9", "9", "0">>,
            <<"1", "/", "2", "/", "9", "0">>,
            <<"3", "1", "/", "0", "2", "/", "1", "9", "9", "0">>,
            <<"0", "1", "/", "0", "2", "/", "0", "9", "9", "0">>}

\* A row every rule accepts and no rule changes.
BaseRow(variant) ==
    IF variant = SM THEN <<<<"A", "1">>, <<"B", "2">>, <<"a", "@", "b", ".", "c">>, <<"9", "2", "3", "4", "5", "6", "7">>, <<"0", "1", "/", "0", "2", "/", "1", "9", "9", "0">>>>
    ELSE <<<<"A", "1">>, <<"B", "2">>, <<"a", "@", "b", ".", "c">>, <<"5", "2", "3", "4", "5">>, <<"1", "2", "3", "4", "5", "6", "7", "8", "9", "0">>, <<"0", "1", "/", "0", "2", "/", "1", "9", "9", "0">>>>

\* Largest number of cells in which a row of a single-row job differs from
\* BaseRow.
MaxVaried == 2

AllRows(variant) ==
    IF variant = SM
    THEN {<<a, b, c, d, f>> : a \in UspcidPool, b \in UsclidPool, c \in EmailPool,
                              d \in MobilePool(SM), f \in DobPool}
    ELSE {<<a, b, c, d, e, f>> : a \in UspcidPool, b \in UsclidPool, c \in EmailPool,
                                 d \in MobilePool(DV), e \in AccPool, f \in DobPool}

\* Rows of a job with a single data row.
FieldRows(variant) ==
    {r \in AllRows(variant) :
        Cardinality({k \in 1..Len(r) : r[k] # BaseRow(variant)[k]}) <= MaxVaried}

\* Rows of a job with several data rows: a row that is normalized and
\* clean, a row failing two rules, a row without email, a row with fewer
\* values than the header and a row with more.
BatchRows(variant) ==
    IF variant = SM
    THEN {<<<<"A", "1">>, <<"B", "2">>, <<"a", "@", "b", ".", "c">>, <<"+", "6", "8", "5", " ", "9", "2", "3", "4", "5", "6", "7">>, <<"1", "/", "2", "/", "1", "9", "9", "0">>>>,
          <<<<"A", "1">>, <<"B", "2">>, <<"a", "@", "b", ".", "c">>, <<"1", "2", "3", "4", "5">>, <<"3", "1", "/", "0", "2", "/", "1", "9", "9", "0">>>>,
          <<<<"A", "1">>, <<"B", "2">>, <<>>, <<"+", "6", "8", "5", " ", "9", "2", "3", "4", "5", "6", "7">>, <<"1", "/", "2", "/", "1", "9", "9", "0">>>>,
          <<<<"A", "1">>, <<"B", "2">>>>,
          <<<<"A", "1">>, <<"B", "2">>, <<"a", "@", "b", ".", "c">>, <<"9", "2", "3", "4", "5", "6", "7">>, <<"0", "1", "/", "0", "2", "/", "1", "9", "9", "0">>, <<"X">>>>}
    ELSE {<<<<"A", "1">>, <<"B", "2">>, <<"a", "@", "b", ".", "c">>, <<"+", "6", "8", "2", " ", "5", "2", "3", "4", "5">>, <<"1", "2", "3", "4", "5">>, <<"0", "1", "-", "0", "2", "-", "1", "9", "9", "0">>>>,
          <<<<"A", "1">>, <<"B", "2">>, <<"a", "@", "b", ".", "c">>, <<"1", "2", "3", "4", "5", "6", "7">>, <<"1", "2", "3", "4", "5", "6", "7", "8", "9", "0">>, <<"3", "1", "/", "0", "2", "/", "1", "9", "9", "0">>>>,
          <<<<"A", "1">>, <<"B", "2">>, <<>>, <<"+", "6", "8", "2", " ", "5", "2", "3", "4", "5">>, <<"1", "2", "3", "4", "5">>, <<"1", "/", "2", "/", "1", "9", "9", "0">>>>,
          <<<<"A", "1">>, <<"B", "2">>>>,
          <<<<"A", "1">>, <<"B", "2">>, <<"a", "@", "b", ".", "c">>, <<"5", "2", "3", "4", "5">>, <<"1", "2", "3", "4", "5", "6", "7", "8", "9", "0">>, <<"0", "1", "/", "0", "2", "/", "1", "9", "9", "0">>, <<"X">>>>}

RowPool(mode, variant) ==
    IF mode = "batch" THEN BatchRows(variant) ELSE FieldRows(variant)

\* The input file: absent, empty (no header line), or a header and rows.
InFiles(maxRows) ==
    {[exists |-> FALSE, hasHeader |-> FALSE, rows |-> 0],
     [exists |-> TRUE, hasHeader |-> FALSE, rows |-> 0]} \cup
    {[exists |-> TRUE, hasHeader |-> TRUE, rows |-> n] : n \in 0..maxRows}

----------------------------------------------------------------------------
\* The job.

VARIABLES
    variant,    \* which script runs
    mode,       \* which set of rows the input file draws from
    rulesDoc,   \* validation_rules.json on disk
    infile,     \* Corprate_data_dummy.csv on disk
    pc,         \* position of main()
    rules,      \* the loaded rules
    open,       \* the streams currently open
    header,     \* the header read from the input
    cleanFile,  \* lines of clean_data.csv
    errFile,    \* lines of error_data.csv
    log,        \* lines of job_log.txt
    input,      \* the data rows read so far, in order
    phone,      \* a mobile cell value
    once,       \* its normalization
    twice       \* the normalization of the normalized value

vars == <<variant, mode, rulesDoc, infile, pc, rules, open, header,
          cleanFile, errFile, log, input, phone, once, twice>>

stripVars == <<phone, once, twice>>

Streams == {"infile", "clean_file", "error_file", "log"}

\* One line of an output file: the input row it comes from (0 for the
\* header) and its cells.
Line(i, cells) == [src |-> i, cells |-> cells]

\* writerow that puts the line right after the header instead of at the end.
writerow_front(file, line) ==
    IF file = <<>> THEN <<line>> ELSE <<Head(file), line>> \o Tail(file)

\* csv writer.writerow
writerow(file, line) == Append(file, line)

\* The IndexError handler around dict(zip(...)) is never entered.
zip_raises(names, row) == FALSE

\* Which stream a processed row is written to.
writes_error(error_description) == error_description # <<>>
\* writes_clean that holds for every row.
writes_clean_always(error_description) == TRUE
writes_clean(error_description) == error_description = <<>>

InitJob(m, maxRows) ==
    /\ variant \in Variants
    /\ mode = m
    /\ rulesDoc \in RuleDocs
    /\ infile \in InFiles(maxRows)
    /\ pc = "NotStarted"
    /\ rules = NoRules
    /\ open = {}
    /\ header = <<>>
    /\ cleanFile = <<>>
    /\ errFile = <<>>
    /\ log = <<>>
    /\ input = <<>>
    /\ phone = <<>>
    /\ once = <<>>
    /\ twice = <<>>

Init == InitJob("batch", MaxRows)
InitRow == InitJob("fields", 1)

\* json.load of the rules document.
LoadRules ==
    /\ pc = "NotStarted"
    /\ rulesDoc.exists
    /\ rules' = rulesDoc.doc
    /\ pc' = "RulesLoaded"
    /\ UNCHANGED <<variant, mode, rulesDoc, infile, open, header, cleanFile,
                   errFile, log, input, stripVars>>

\* FileNotFoundError on the rules document: message, return.
RulesNotFound ==
    /\ pc = "NotStarted"
    /\ ~rulesDoc.exists
    /\ pc' = "ConfigMissing"
    /\ UNCHANGED <<variant, mode, rulesDoc, infile, rules, open, header,
                   cleanFile, errFile, log, input, stripVars>>

\* The with statement: the input is opened first, then the three outputs,
\* which are created empty.
OpenStreams ==
    /\ pc = "RulesLoaded"
    /\ infile.exists
    /\ open' = Streams
    /\ cleanFile' = <<>>
    /\ errFile' = <<>>
    /\ log' = <<>>
    /\ pc' = "StreamsOpen"
    /\ UNCHANGED <<variant, mode, rulesDoc, infile, rules, header, input, stripVars>>

\* FileNotFoundError on the input file: no output stream is opened.
InputNotFound ==
    /\ pc = "RulesLoaded"
    /\ ~infile.exists
    /\ pc' = "InputMissing"
    /\ UNCHANGED <<variant, mode, rulesDoc, infile, rules, open, header,
                   cleanFile, errFile, log, input, stripVars>>

\* header = next(reader), the two header lines, the start marker.
ReadHeader ==
    /\ pc = "StreamsOpen"
    /\ infile.hasHeader
    /\ header' = FileHeader(variant)
    /\ cleanFile' = writerow(cleanFile, Line(0, header'))
    /\ errFile' = writerow(errFile, Line(0, error_header(header')))
    /\ log' = log_message(log, LogEntry("", 0, "job_started", <<>>, <<>>))
    /\ pc' = "Processing"
    /\ UNCHANGED <<variant, mode, rulesDoc, infile, rules, open, input, stripVars>>

\* next(reader) on an empty input raises StopIteration before anything is
\* written; except Exception reports it and the with statement closes all.
NoHeader ==
    /\ pc = "StreamsOpen"
    /\ ~infile.hasHeader
    /\ open' = {}
    /\ pc' = "UnexpectedError"
    /\ UNCHANGED <<variant, mode, rulesDoc, infile, rules, header, cleanFile,
                   errFile, log, input, stripVars>>

\* One iteration of the loop.  It ends normally (continue or fall through)
\* with one line written, or it raises (a key missing from the rules): then
\* what the row has logged stays, except Exception reports the failure and
\* the with statement closes every stream.
ProcessRow ==
    /\ pc = "Processing"
    /\ Len(input) < infile.rows
    /\ \E row \in RowPool(mode, variant) : \E padYear \in BOOLEAN :
         LET i == Len(input) + 1
             names == processed_header(variant, header)
             res == process_row(variant, rules, names, i, row, padYear)
             cells == row_values(res.row_data, names)
         IN /\ input' = Append(input, row)
            /\ IF zip_raises(names, row)
               THEN /\ log' = log_message(log, LogEntry("ERROR", i, "bad_columns", <<>>, <<>>))
                    /\ UNCHANGED <<cleanFile, errFile, pc, open>>
               ELSE IF res.exc
               THEN /\ log' = log \o res.log
                    /\ open' = {}
                    /\ pc' = "UnexpectedError"
                    /\ UNCHANGED <<cleanFile, errFile>>
               ELSE /\ log' = log \o res.log
                    /\ errFile' = IF writes_error(res.err)
                                  THEN writerow(errFile, Line(i, cells \o <<res.err>>))
                                  ELSE errFile
                    /\ cleanFile' = IF writes_clean(res.err)
                                    THEN writerow(cleanFile, Line(i, cells))
                                    ELSE cleanFile
                    /\ UNCHANGED <<pc, open>>
    /\ UNCHANGED <<variant, mode, rulesDoc, infile, rules, header, stripVars>>

\* The reader is exhausted: finish marker, the with statement closes all.
Finish ==
    /\ pc = "Processing"
    /\ Len(input) = infile.rows
    /\ log' = log_message(log, LogEntry("", 0, "job_finished", <<>>, <<>>))
    /\ open' = {}
    /\ pc' = "Finished"
    /\ UNCHANGED <<variant, mode, rulesDoc, infile, rules, header, cleanFile,
                   errFile, input, stripVars>>

Next ==
    \/ LoadRules
    \/ RulesNotFound
    \/ OpenStreams
    \/ InputNotFound
    \/ ReadHeader
    \/ NoHeader
    \/ ProcessRow
    \/ Finish

Spec == Init /\ [][Next]_vars
SpecRow == InitRow /\ [][Next]_vars

----------------------------------------------------------------------------
\* Normalization of a mobile cell applied to its own result, as when a
\* cleaned file is fed to the job again.

\* Longest mobile cell value.
MaxPhoneLen == 6

\* The characters of the country code of the variant, and the space.
PhoneChars(v) == {plus_prefix(v)[k] : k \in 1..4} \cup {" "}

PhoneValues(v) == UNION {[1..n -> PhoneChars(v)] : n \in 0..MaxPhoneLen}

InitStrip ==
    /\ variant \in Variants
    /\ phone \in PhoneValues(variant)
    /\ pc = "Strip0"
    /\ once = <<>>
    /\ twice = <<>>
    /\ mode = "strip"
    /\ rulesDoc = [exists |-> FALSE, doc |-> NoRules]
    /\ infile = [exists |-> FALSE, hasHeader |-> FALSE, rows |-> 0]
    /\ rules = NoRules
    /\ open = {}
    /\ header = <<>>
    /\ cleanFile = <<>>
    /\ errFile = <<>>
    /\ log = <<>>
    /\ input = <<>>

\* The cell as the job reads it.
StripOnce ==
    /\ pc = "Strip0"
    /\ once' = normalize_mobile(variant, phone)
    /\ pc' = "Strip1"
    /\ UNCHANGED <<variant, mode, rulesDoc, infile, rules, open, header,
                   cleanFile, errFile, log, input, phone, twice>>

\* The stored value read as a cell again.
StripTwice ==
    /\ pc = "Strip1"
    /\ twice' = normalize_mobile(variant, once)
    /\ pc' = "Strip2"
    /\ UNCHANGED <<variant, mode, rulesDoc, infile, rules, open, header,
                   cleanFile, errFile, log, input, phone, once>>

NextStrip == StripOnce \/ StripTwice

SpecStrip == InitStrip /\ [][NextStrip]_vars

----------------------------------------------------------------------------
\* Reading a state: what the job has done with input row i.

\* The loop iteration of row i has ended (it has not raised).
Done(i) == i \in 1..Len(input) /\ ~(pc = "UnexpectedError" /\ i = Len(input))

DoneRows == {i \in 1..Len(input) : Done(i)}

LinesOf(file, i) == {k \in 1..Len(file) : file[k].src = i}
LogOf(i) == {k \in 1..Len(log) : log[k].row = i}

Skipped(i) == \E k \in LogOf(i) : log[k].event = "bad_columns"
ShortCircuited(i) == \E k \in LogOf(i) : log[k].event = "missing_email_row"

\* The rows every field rule was run on.
ValidatedRows == {i \in DoneRows : ~Skipped(i) /\ ~ShortCircuited(i)}

Names == processed_header(variant, header)
RawDict(i) == zip_dict(Names, input[i])
InCell(i, name) == get(RawDict(i), name)
Trimmed(i, name) == strip(InCell(i, name))

IsErrRow(i) == LinesOf(errFile, i) # {}
ErrLine(i) == errFile[CHOOSE k \in LinesOf(errFile, i) : TRUE]
CleanLine(i) == cleanFile[CHOOSE k \in LinesOf(cleanFile, i) : TRUE]

\* The descriptors written for row i, and the cells written for it.
Descs(i) == IF IsErrRow(i) THEN ErrLine(i).cells[Len(ErrLine(i).cells)] ELSE <<>>
OutCells(i) ==
    IF IsErrRow(i) THEN SubSeq(ErrLine(i).cells, 1, Len(ErrLine(i).cells) - 1)
    ELSE CleanLine(i).cells
OutCell(i, name) == OutCells(i)[CHOOSE k \in 1..Len(Names) : Names[k] = name]

DescMsgs(i) == {Descs(i)[k].msg : k \in 1..Len(Descs(i))}

----------------------------------------------------------------------------
\* C1: every row whose loop iteration ended and that was not skipped for
\* its column count has exactly one output line, in the clean file or in
\* the error file; a skipped row has none; and when the job has finished,
\* clean rows + error rows + skipped rows = the data rows of the input.
C1_ExactlyOneOutputRow ==
    /\ \A i \in DoneRows :
         Cardinality(LinesOf(cleanFile, i)) + Cardinality(LinesOf(errFile, i))
            = IF Skipped(i) THEN 0 ELSE 1
    /\ pc = "Finished" =>
         /\ Len(input) = infile.rows
         /\ (Len(cleanFile) - 1) + (Len(errFile) - 1)
               + Cardinality({i \in DoneRows : Skipped(i)}) = infile.rows

\* A finished job with a clean row and an error row.
C1_Witness ==
    /\ pc = "Finished"
    /\ infile.rows >= 2
    /\ Len(cleanFile) >= 2
    /\ Len(errFile) >= 2

\* C2: a row whose number of values differs from the number of header
\* columns has no output line in either file and exactly one ERROR entry in
\* the log.
C2_MismatchSkipped ==
    \A i \in DoneRows :
        Len(input[i]) # Len(header) =>
            /\ LinesOf(cleanFile, i) = {}
            /\ LinesOf(errFile, i) = {}
            /\ Cardinality({k \in LogOf(i) : log[k].level = "ERROR"}) = 1

\* C3 as stated: on every exit after the output streams were opened, all
\* streams are closed and each output file starts with its header.
C3_HeaderOnEveryExit ==
    pc \in {"Finished", "UnexpectedError"} =>
        /\ open = {}
        /\ Len(cleanFile) >= 1
        /\ Len(errFile) >= 1
        /\ cleanFile[1].cells = FileHeader(variant)
        /\ errFile[1].cells = FileHeader(variant) \o <<"error_desc">>

\* C3 amended: while the job runs the four streams are open; on every exit
\* after they were opened all are closed; each output file starts with its
\* header if the input had a header line, and is empty if it had none.
C3_ReleasedAndHeaderIfRead ==
    /\ pc \in {"StreamsOpen", "Processing"} => open = Streams
    /\ pc \in {"Finished", "UnexpectedError"} =>
         /\ open = {}
         /\ IF infile.hasHeader
            THEN /\ Len(cleanFile) >= 1
                 /\ Len(errFile) >= 1
                 /\ cleanFile[1] = Line(0, FileHeader(variant))
                 /\ errFile[1] = Line(0, FileHeader(variant) \o <<"error_desc">>)
            ELSE cleanFile = <<>> /\ errFile = <<>>

\* A job that failed on its second row: closed streams, headers in place.
C3_Witness ==
    /\ pc = "UnexpectedError"
    /\ infile.hasHeader
    /\ Len(input) >= 2
    /\ open = {}
    /\ Len(cleanFile) + Len(errFile) >= 3

\* C4: in each output file the lines are in the order of the input rows
\* they come from, the header first, and no input row has two lines.
C4_InputOrderKept ==
    \A file \in {cleanFile, errFile} :
        \A j \in 1..Len(file) : \A k \in 1..Len(file) :
            j < k => file[j].src < file[k].src

\* Rows 1 and 3 clean, row 2 between them in the error file.
C4_Witness ==
    /\ pc = "Finished"
    /\ Len(cleanFile) = 3
    /\ cleanFile[2].src = 1
    /\ cleanFile[3].src = 3
    /\ Len(errFile) = 2
    /\ errFile[2].src = 2

has_country_code(v, mobile) ==
    startswith(mobile, plus_prefix(v)) \/ startswith(mobile, bare_prefix(v))

\* C5 as stated: normalizing a normalized mobile number changes nothing.
C5_Idempotent == pc = "Strip2" => twice = once

\* C5 amended: exactly one leading country code is removed, so normalizing
\* a normalized mobile number changes nothing if and only if the normalized
\* number does not itself begin with a country code.
C5_IdempotentUnlessPrefixLeft ==
    pc = "Strip2" => ((twice = once) <=> ~has_country_code(variant, once))

\* A value the normalization changed and its second application kept.
C5_Witness ==
    /\ pc = "Strip2"
    /\ has_country_code(variant, strip(phone))
    /\ once # <<>>
    /\ twice = once

MobileWarnings(i) ==
    {k \in LogOf(i) : log[k].level = "WARNING"
                      /\ log[k].event \in {"mobile_zero", "not_mobile", "outside_range"}}

\* C6: a validated row whose mobile number is exactly "0" has no mobile
\* descriptor and exactly one WARNING entry about the mobile number.
C6_ZeroIsWarning ==
    \A i \in ValidatedRows :
        Trimmed(i, "Mobile_no") = <<"0">> =>
            /\ "invalid mobile number format" \notin DescMsgs(i)
            /\ Cardinality(MobileWarnings(i)) = 1

\* The row carries the descriptor the script gives a missing F.
MissingAppended(i, F) ==
    IF F = "DOB"
    THEN \/ "missing date of birth" \in DescMsgs(i)
         \/ "invalid date of birth" \in DescMsgs(i) /\ Trimmed(i, "DOB") = <<>>
    ELSE missing_msg(F) \in DescMsgs(i)

\* C7: for F among USPCID, USCLID and DOB, a validated row carries the
\* 'missing F' descriptor if and only if the rules require F and the row's
\* own trimmed value of F is empty.
C7_MissingIffRequiredAndEmpty ==
    DOMAIN rules = RuleKeys =>
        \A i \in ValidatedRows : \A F \in {"USPCID", "USCLID", "DOB"} :
            MissingAppended(i, F) <=> (rules[F] /\ Trimmed(i, F) = <<>>)

\* The rows of the SM script with a required and empty email.
MissingEmailRows ==
    {i \in DoneRows : /\ variant = SM
                      /\ "email_add" \in DOMAIN rules
                      /\ rules["email_add"]
                      /\ Trimmed(i, "email_add") = <<>>}

\* C8: in the SM script a row whose email is required and empty has one
\* line in the error file, holding the cells as read and the single
\* descriptor "missing email address", no line in the clean file, and one
\* log entry, an ERROR.
C8_MissingEmailShortCircuits ==
    \A i \in MissingEmailRows :
        /\ LinesOf(cleanFile, i) = {}
        /\ Cardinality(LinesOf(errFile, i)) = 1
        /\ ErrLine(i).cells = row_values(RawDict(i), Names)
                                \o << <<Desc("missing email address", <<>>)>> >>
        /\ Cardinality(LogOf(i)) = 1
        /\ \A k \in LogOf(i) : log[k].level = "ERROR"

\* Such a row whose mobile number carries a country code, written with the
\* mobile cell as read.
C8_Witness ==
    /\ pc = "Finished"
    /\ \E i \in MissingEmailRows :
         /\ has_country_code(variant, Trimmed(i, "Mobile_no"))
         /\ OutCell(i, "Mobile_no") = InCell(i, "Mobile_no")

\* Rule r applied alone to row i as read.
Fresh(i) == [row_data |-> RawDict(i), err |-> <<>>, log |-> <<>>, exc |-> FALSE]
RuleAlone(r, i, padYear) ==
    CASE r = 1 -> step_identifier(variant, rules, "USPCID", Fresh(i))
      [] r = 2 -> step_identifier(variant, rules, "USCLID", Fresh(i))
      [] r = 3 -> step_email(variant, rules, Fresh(i))
      [] r = 4 -> step_mobile(variant, i, Fresh(i))
      [] r = 5 -> step_account(variant, i, Fresh(i))
      [] r = 6 -> step_dob(variant, rules, i, padYear, Fresh(i))

\* C9: the descriptors of a validated row are those of the identifier,
\* email, mobile, account and date-of-birth rules, each applied alone to
\* the row as read, in that order; and each written cell is the one its own
\* rule leaves, whatever the other rules decided.
C9_AllRulesInOrder ==
    \A i \in ValidatedRows : \E padYear \in BOOLEAN :
        LET uspcid == RuleAlone(1, i, padYear)
            usclid == RuleAlone(2, i, padYear)
            email == RuleAlone(3, i, padYear)
            mobile == RuleAlone(4, i, padYear)
            account == RuleAlone(5, i, padYear)
            dob == RuleAlone(6, i, padYear)
        IN /\ Descs(i) = uspcid.err \o usclid.err \o email.err
                         \o mobile.err \o account.err \o dob.err
           /\ OutCells(i) = [k \in 1..Len(Names) |->
                  CASE Names[k] = "Mobile_no" -> get(mobile.row_data, Names[k])
                    [] Names[k] = "Acc_no" -> get(account.row_data, Names[k])
                    [] Names[k] = "DOB" -> get(dob.row_data, Names[k])
                    [] OTHER -> InCell(i, Names[k])]

\* A row with an invalid mobile number and an invalid date of birth.
C9_Witness ==
    /\ pc = "Finished"
    /\ \E i \in ValidatedRows :
         /\ Len(Descs(i)) = 2
         /\ Descs(i)[1].msg = "invalid mobile number format"
         /\ Descs(i)[2].msg \in {"invalid date of birth", "invalid date of birth format"}

ChangeEvent(name) ==
    CASE name = "Mobile_no" -> "mobile_changed"
      [] name = "Acc_no" -> "acc_changed"
      [] name = "DOB" -> "dob_changed"

\* A rule stored a value whose text differs from the trimmed input.
Corrected(i, name) ==
    OutCell(i, name) # InCell(i, name) /\ OutCell(i, name) # Trimmed(i, name)

\* C10: for the mobile number, the account number and the date of birth of
\* a validated row, the log holds one INFO entry recording the change from
\* the trimmed input to the stored value if the stored value differs, and
\* no such entry if it does not.
C10_EveryCorrectionLogged ==
    \A i \in ValidatedRows :
        \A name \in {"Mobile_no", "Acc_no", "DOB"} \cap {Names[k] : k \in 1..Len(Names)} :
            LET changes == {k \in LogOf(i) : log[k].level = "INFO"
                                             /\ log[k].event = ChangeEvent(name)}
            IN IF Corrected(i, name)
               THEN /\ Cardinality(changes) = 1
                    /\ \A k \in changes : /\ log[k].old = Trimmed(i, name)
                                          /\ log[k].new = OutCell(i, name)
               ELSE changes = {}

ErrorEntries == {k \in 1..Len(log) : log[k].level = "ERROR"}

\* C11: every row with a line in the error file has an ERROR entry in the
\* log, and when the job has finished the log holds at least as many ERROR
\* entries as there are error rows and skipped rows.
C11_ErrorRowsLogged ==
    /\ \A i \in DoneRows : IsErrRow(i) => \E k \in LogOf(i) : log[k].level = "ERROR"
    /\ pc = "Finished" =>
         Cardinality(ErrorEntries)
            >= (Len(errFile) - 1) + Cardinality({i \in DoneRows : Skipped(i)})

====
